---- MODULE Spec2Model ----
(***************************************************************************)
(* Model of mdl/shill-utilities: the poster script (src/scripts/poster.ts  *)
(* over src/telegram/TelegramService.ts) and the multi-account commenter   *)
(* (src/scripts/multi_commenter.ts).                                       *)
(*                                                                         *)
(* Time is counted in seconds.  Every `await` of the source is a point at  *)
(* which other callbacks of the single event loop may run, so each         *)
(* asynchronous function is cut into one action per synchronous stretch.   *)
(***************************************************************************)
EXTENDS Integers, Sequences, FiniteSets, TLC

VARIABLES
  \* ---- classification harness (pure function under test) ----
  hDialogs,        \* the batch handed to the classification pass
  hGroupsOnly,     \* config.runtime.groups_only
  hPeers,          \* TelegramService.updateWritableGroups: resulting array
  hMap,            \* multi_commenter getWritablePeers: resulting Map
  hDone,           \* which pass has been applied
  \* ---- shared by both scripts ----
  now,             \* wall clock, seconds
  shuttingDown,    \* poster.ts:29 / multi_commenter.ts:123
  exited,          \* process.exit() was called
  connected,       \* transport handle not yet disconnected
  floodUntil,      \* platform side: end of the poster account's flood window (0: none)
  sendLog,         \* record of the poster's latest client.sendMessage call
  \* ---- poster.ts + TelegramService ----
  mainPc,          \* position of main()
  groups_only,     \* config.runtime.groups_only
  postMs,          \* seconds between post ticks
  refreshMs,       \* seconds between refresh ticks
  messagesList,    \* config.messages.list
  writablePeers,   \* TelegramService.writablePeers
  nextGen,         \* number of getDialogs results delivered so far
  refreshTimer,    \* next fire time of refreshTimer (0: not scheduled)
  postTimer,       \* next fire time of postTimer (0: not scheduled)
  tasks,           \* in-flight invocations of the timer callbacks
  finished,        \* the invocation that completed last
  \* ---- multi_commenter.ts ----
  mPc,             \* position of main()
  users,           \* config.users
  ignore_probability, \* config.runtime.ignore_probability, in tenths
  mSelf,           \* selfId of the client being set up (0: undefined)
  clients,         \* the ClientState array
  commonIds,       \* the intersection of the pools' ids
  commentsCache,   \* the template cache
  commentsTimer,   \* next fire time of commentsTimer (0: not scheduled)
  fetches,         \* in-flight invocations of the commentsTimer callback
  handlers         \* in-flight invocations of the new-message handler

classVars == <<hDialogs, hGroupsOnly, hPeers, hMap, hDone>>

sharedVars == <<now, shuttingDown, exited, connected, floodUntil, sendLog>>

posterVars == <<mainPc, groups_only, postMs, refreshMs, messagesList,
                writablePeers, nextGen, refreshTimer, postTimer, tasks, finished>>

multiVars == <<mPc, users, ignore_probability, mSelf, clients, commonIds,
               commentsCache, commentsTimer, fetches, handlers>>

vars == <<classVars, sharedVars, posterVars, multiVars>>

-----------------------------------------------------------------------------
(* Conversations as the transport hands them over (a gramjs Dialog).       *)

\* Numeric identifiers of conversations.
Nums ==
  {1, 2}

\* A dialog: the fields the classification pass reads.
\*   cls: the class of d.entity ("None": no entity; "Other": an entity that
\*        is neither Api.Channel, Api.Chat nor Api.User; "Throws": reading
\*        the dialog raises a TypeError)
\*   bannedSend / defaultBannedSend: entity.bannedRights?.send_messages and
\*        entity.defaultBannedRights?.send_messages
Dlg(cls, num, isGroup, isUser, input, left, broadcast, megagroup, deactivated, br, dbr, bot) ==
  [cls |-> cls, num |-> num, isGroup |-> isGroup, isUser |-> isUser,
   input |-> input, left |-> left, broadcast |-> broadcast,
   megagroup |-> megagroup, deactivated |-> deactivated,
   bannedSend |-> br, defaultBannedSend |-> dbr, bot |-> bot]

ChannelDialogs ==
  {Dlg("Channel", n, g, FALSE, TRUE, l, b, m, FALSE, br, dbr, FALSE) :
     n \in Nums, g \in BOOLEAN, l \in BOOLEAN, b \in BOOLEAN, m \in BOOLEAN,
     br \in BOOLEAN, dbr \in BOOLEAN}

ChatDialogs ==
  {Dlg("Chat", n, g, FALSE, TRUE, l, FALSE, FALSE, da, br, dbr, FALSE) :
     n \in Nums, g \in BOOLEAN, l \in BOOLEAN, da \in BOOLEAN,
     br \in BOOLEAN, dbr \in BOOLEAN}

UserDialogs ==
  {Dlg("User", n, g, u, TRUE, FALSE, FALSE, FALSE, FALSE, FALSE, FALSE, bot) :
     n \in Nums, g \in BOOLEAN, u \in BOOLEAN, bot \in BOOLEAN}

OtherDialogs ==
  {Dlg(c, n, g, u, i, FALSE, FALSE, FALSE, FALSE, FALSE, FALSE, FALSE) :
     c \in {"Other", "None", "Throws"}, n \in {1}, g \in BOOLEAN, u \in BOOLEAN,
     i \in BOOLEAN}

AllDialogs ==
  ChannelDialogs \cup ChatDialogs \cup UserDialogs \cup OtherDialogs

-----------------------------------------------------------------------------
(* PeerClassifier: TelegramService.updateWritableGroups and                *)
(* multi_commenter getWritablePeers.                                       *)

\* A derivation that looks at the dialog's isUser flag.
PeerIdString_byFlag(d) ==
  [kind |-> IF d.isUser THEN "user" ELSE "channel", n |-> d.num]

\* TelegramService.peerIdString: `channel_<n>`, `chat_<n>`, `user_<n>`, else
\* 'peer_unknown'.
PeerIdString(d) ==
  CASE d.cls = "Channel" -> [kind |-> "channel", n |-> d.num]
    [] d.cls = "Chat"    -> [kind |-> "chat", n |-> d.num]
    [] d.cls = "User"    -> [kind |-> "user", n |-> d.num]
    [] OTHER             -> [kind |-> "peer_unknown", n |-> 0]

\* multi_commenter.ts peerIdString: the same derivation, written again.
PeerIdStringMulti(d) ==
  CASE d.cls = "Channel" -> [kind |-> "channel", n |-> d.num]
    [] d.cls = "Chat"    -> [kind |-> "chat", n |-> d.num]
    [] d.cls = "User"    -> [kind |-> "user", n |-> d.num]
    [] OTHER             -> [kind |-> "peer_unknown", n |-> 0]

\* The loop body without the tests of groups_only.
Eligible_keepsUsers(d, groupsOnly) ==
  /\ d.cls # "Throws" /\ d.input /\ d.cls # "None"
  /\ d.isGroup \/ d.isUser
  /\ CASE d.cls = "Channel" -> ~d.left /\ ~d.broadcast /\ d.megagroup /\ ~d.bannedSend
       [] d.cls = "Chat" -> ~d.deactivated /\ ~d.left /\ ~d.defaultBannedSend
       [] d.cls = "User" -> ~d.bot
       [] OTHER -> TRUE

\* The loop body without the test of entity.broadcast.
Eligible_keepsBroadcast(d, groupsOnly) ==
  /\ d.cls # "Throws" /\ d.input /\ d.cls # "None"
  /\ IF groupsOnly THEN d.isGroup ELSE (d.isGroup \/ d.isUser)
  /\ CASE d.cls = "Channel" -> ~d.left /\ d.megagroup /\ ~d.bannedSend
       [] d.cls = "Chat" -> ~d.deactivated /\ ~d.left /\ ~d.defaultBannedSend
       [] d.cls = "User" -> ~groupsOnly /\ ~d.bot
       [] OTHER -> TRUE

\* Body of the for loop of updateWritableGroups for one dialog: TRUE when the
\* loop reaches nextPeers.push.
Eligible(d, groupsOnly) ==
  /\ d.cls # "Throws"                                   \* caught at line 129
  /\ d.input /\ d.cls # "None"                          \* line 100
  /\ IF groupsOnly THEN d.isGroup                       \* lines 102-107
                   ELSE (d.isGroup \/ d.isUser)
  /\ CASE d.cls = "Channel" ->                          \* lines 110-116
            /\ ~d.left
            /\ ~d.broadcast
            /\ d.megagroup
            /\ ~d.bannedSend
       [] d.cls = "Chat" ->                             \* lines 117-121
            /\ ~d.deactivated
            /\ ~d.left
            /\ ~d.defaultBannedSend
       [] d.cls = "User" ->                             \* lines 122-125
            /\ ~groupsOnly
            /\ ~d.bot
       [] OTHER -> TRUE

\* The loop body without the tests of left and deactivated.
EligibleMulti_keepsLeft(d, groupsOnly) ==
  /\ d.cls # "Throws" /\ d.input /\ d.cls # "None"
  /\ IF groupsOnly THEN d.isGroup ELSE (d.isGroup \/ d.isUser)
  /\ CASE d.cls = "Channel" -> ~d.broadcast /\ d.megagroup /\ ~d.bannedSend
       [] d.cls = "Chat" -> ~d.defaultBannedSend
       [] d.cls = "User" -> ~groupsOnly /\ ~d.bot
       [] OTHER -> TRUE

\* Body of the for loop of getWritablePeers (multi_commenter.ts) for one
\* dialog: TRUE when the loop reaches map.set.
EligibleMulti(d, groupsOnly) ==
  /\ d.cls # "Throws"                                   \* caught at line 76
  /\ d.input /\ d.cls # "None"                          \* line 53
  /\ IF groupsOnly THEN d.isGroup                       \* lines 54-58
                   ELSE (d.isGroup \/ d.isUser)
  /\ CASE d.cls = "Channel" ->                          \* lines 59-64
            /\ ~d.left
            /\ ~d.broadcast
            /\ d.megagroup
            /\ ~d.bannedSend
       [] d.cls = "Chat" ->                             \* lines 65-69
            /\ ~d.deactivated
            /\ ~d.left
            /\ ~d.defaultBannedSend
       [] d.cls = "User" ->                             \* lines 70-73
            /\ ~groupsOnly
            /\ ~d.bot
       [] OTHER -> TRUE

\* The InputPeer object of dialog d in the gen-th getDialogs result.  Every
\* result carries objects of its own: two inputs are the same object (===)
\* only when they come from the same result.
InputOf(d, gen) ==
  [gen |-> gen, of |-> d]

\* A WritablePeer {title, input, id}; the title is only logged.
PeerOf(d, gen) ==
  [id |-> PeerIdString(d), input |-> InputOf(d, gen)]

\* A loop that pushes every dialog of the batch.
ClassifyFrom_all(dialogs, groupsOnly, gen, i) ==
  [j \in 1..Len(dialogs) |-> PeerOf(dialogs[j], gen)]

\* A loop that the first throwing dialog ends.
ClassifyFrom_aborts(dialogs, groupsOnly, gen, i) ==
  LET throwing == {j \in i..Len(dialogs) : dialogs[j].cls = "Throws"}
      last == IF throwing = {} THEN Len(dialogs)
              ELSE (CHOOSE j \in throwing : \A k \in throwing : j <= k) - 1
      kept == SelectSeq(SubSeq(dialogs, i, last), LAMBDA d : Eligible(d, groupsOnly))
  IN [k \in 1..Len(kept) |-> PeerOf(kept[k], gen)]

RECURSIVE ClassifyFrom(_, _, _, _)
\* The for loop of updateWritableGroups from index i on: nextPeers.
ClassifyFrom(dialogs, groupsOnly, gen, i) ==
  IF i > Len(dialogs) THEN <<>>
  ELSE (IF Eligible(dialogs[i], groupsOnly) THEN <<PeerOf(dialogs[i], gen)>> ELSE <<>>)
         \o ClassifyFrom(dialogs, groupsOnly, gen, i + 1)

\* updateWritableGroups lines 90-134: the value assigned to writablePeers.
NextPeers(dialogs, groupsOnly, gen) ==
  ClassifyFrom(dialogs, groupsOnly, gen, 1)

\* The empty Map.
EmptyMap ==
  [id \in {} |-> 0]

\* Map.set(id, v).
MapSet(map, id, v) ==
  [k \in (DOMAIN map) \cup {id} |-> IF k = id THEN v ELSE map[k]]

RECURSIVE MapFrom(_, _, _, _, _)
\* The for loop of getWritablePeers from index i on, starting from map.
MapFrom(dialogs, groupsOnly, gen, i, map) ==
  IF i > Len(dialogs) THEN map
  ELSE MapFrom(dialogs, groupsOnly, gen, i + 1,
               IF EligibleMulti(dialogs[i], groupsOnly)
                 THEN MapSet(map, PeerIdStringMulti(dialogs[i]), InputOf(dialogs[i], gen))
                 ELSE map)

\* getWritablePeers lines 44-80: the returned Map, key = peerIdString.
GetWritablePeers(dialogs, groupsOnly, gen) ==
  MapFrom(dialogs, groupsOnly, gen, 1, EmptyMap)

-----------------------------------------------------------------------------
(* Classification harness: one classification pass over a drawn batch.     *)

\* Dialogs put beside the dialog under test in a two-dialog batch.
HarnessMates ==
  {Dlg("Channel", 2, TRUE, FALSE, TRUE, FALSE, FALSE, TRUE, FALSE, FALSE, FALSE, FALSE),
   Dlg("Channel", 1, TRUE, FALSE, TRUE, FALSE, TRUE, TRUE, FALSE, FALSE, FALSE, FALSE),
   Dlg("Other", 1, TRUE, FALSE, TRUE, FALSE, FALSE, FALSE, FALSE, FALSE, FALSE, FALSE)}

HarnessBatches ==
  {<<d>> : d \in AllDialogs}
    \cup {<<d, e>> : d \in AllDialogs, e \in HarnessMates}

\* updateWritableGroups applied to the batch (TelegramService.ts:86-139).
HUpdateWritableGroups ==
  /\ "service" \notin hDone
  /\ hPeers' = NextPeers(hDialogs, hGroupsOnly, 1)
  /\ hDone' = hDone \cup {"service"}
  /\ UNCHANGED <<hDialogs, hGroupsOnly, hMap, sharedVars, posterVars, multiVars>>

\* getWritablePeers applied to the batch (multi_commenter.ts:43-81).
HGetWritablePeers ==
  /\ "multi" \notin hDone
  /\ hMap' = GetWritablePeers(hDialogs, hGroupsOnly, 1)
  /\ hDone' = hDone \cup {"multi"}
  /\ UNCHANGED <<hDialogs, hGroupsOnly, hPeers, sharedVars, posterVars, multiVars>>

ClassIdle ==
  /\ hDialogs = <<>>
  /\ hGroupsOnly = FALSE
  /\ hPeers = <<>>
  /\ hMap = EmptyMap
  /\ hDone = {}

-----------------------------------------------------------------------------
(* Time, configuration and the platform's answers.                         *)

\* The model stops the clock here.
MaxTime ==
  120

\* poster.ts:5, multi_commenter.ts:9: seconds in a minute.
SecondsPerMinute ==
  60

\* TelegramService.ts:175: a flood wait at or above this is not slept.
FloodSleepLimit ==
  3600

Max(a, b) ==
  IF a >= b THEN a ELSE b

\* minutes(n) = Math.max(1, Math.floor(n)) * 60 * 1000, in seconds; n is
\* given in tenths of a minute, so that Math.floor has something to cut.
Minutes(nTenths) ==
  Max(1, nTenths \div 10) * SecondsPerMinute

\* config.runtime.post_interval_minutes, in tenths of a minute.
PostIntervals ==
  {5, 15}

\* config.runtime.refresh_groups_interval_minutes, in tenths of a minute.
RefreshIntervals ==
  {20}

\* Seconds carried by a FloodWaitError of the poster's send.
FloodSeconds ==
  {0, 30, 90, 3600, 4000}

\* Seconds carried by a FloodWaitError of the handler's reply.
ReplyFloodSeconds ==
  {30}

\* The alternatives of the regular expression of TelegramService.ts:183.
RemovalPattern ==
  {"CHAT_WRITE_FORBIDDEN", "CHAT_ADMIN_REQUIRED", "USER_BANNED_IN_CHANNEL",
   "PEER_ID_INVALID", "YOU_BLOCKED_USER"}

\* A test that every message passes.
MatchesRemovalPattern_any(msg) ==
  TRUE

\* /.../i.test(msg)
MatchesRemovalPattern(msg) ==
  msg \in RemovalPattern

\* Messages of the non-flood errors client.sendMessage rejects with.
ErrorMessages ==
  RemovalPattern \cup {"TIMEOUT"}

\* Strings are sequences of characters.  String.prototype.trim.
RECURSIVE TrimLeft(_)
TrimLeft(s) ==
  IF s # <<>> /\ Head(s) = " " THEN TrimLeft(Tail(s)) ELSE s

RECURSIVE TrimRight(_)
TrimRight(s) ==
  IF s # <<>> /\ s[Len(s)] = " " THEN TrimRight(SubSeq(s, 1, Len(s) - 1)) ELSE s

\* No trimming at all.
Trim_none(s) ==
  s

Trim(s) ==
  TrimRight(TrimLeft(s))

\* poster.ts:77: (list || []).map((s) => (s || '').trim()).filter(Boolean)
UsableMessages(list) ==
  SelectSeq([i \in 1..Len(list) |-> Trim(list[i])], LAMBDA m : m # <<>>)

\* config.messages.list as configured.
MessageConfigs ==
  {<<>>, << <<" ">> >>, << <<" ", "h", "i">> >>}

\* The conversations of the account on the platform.
MegaA ==
  Dlg("Channel", 1, TRUE, FALSE, TRUE, FALSE, FALSE, TRUE, FALSE, FALSE, FALSE, FALSE)

BroadcastB ==
  Dlg("Channel", 2, FALSE, FALSE, TRUE, FALSE, TRUE, FALSE, FALSE, FALSE, FALSE, FALSE)

ChatC ==
  Dlg("Chat", 2, TRUE, FALSE, TRUE, FALSE, FALSE, FALSE, FALSE, FALSE, FALSE, FALSE)

\* What client.getDialogs({}) may resolve to.
Batches ==
  {<<>>, <<MegaA, BroadcastB>>, <<ChatC, MegaA>>}

NoDialog ==
  Dlg("None", 0, FALSE, FALSE, FALSE, FALSE, FALSE, FALSE, FALSE, FALSE, FALSE, FALSE)

NoInput ==
  InputOf(NoDialog, 0)


-----------------------------------------------------------------------------
(* poster.ts over TelegramService.                                         *)

\* An in-flight invocation of a timer callback.
\*   kind:   "post" (postTask) or "refresh" (refreshGroups)
\*   pc:     "sending"    awaiting client.sendMessage   (TelegramService.ts:168)
\*           "sleeping"   awaiting sleep                (TelegramService.ts:176)
\*           "refreshing" awaiting client.getDialogs    (TelegramService.ts:89)
\*   input:  the peer.input handed to sendMessageTo
\*   signal, secs, wake: time and seconds of the flood signal, end of the sleep
\*   why:    why sendRandomMessage returned false: "" | "nopeer" | "flood" |
\*           "rejected" (peer filtered out) | "failed" (any other error)
Task(kind, started, pc, input, why) ==
  [kind |-> kind, started |-> started, pc |-> pc, input |-> input,
   signal |-> 0, secs |-> 0, wake |-> 0, why |-> why]

\* A timer that is due again before its period has passed.
SetInterval_half(ms) ==
  now + ms \div 2

\* setInterval(callback, ms) called now: the time of the next tick; after a
\* tick the timer is due again one period later, whatever the callback does.
SetInterval(ms) ==
  now + ms

\* A filter on the conversation instead of the input object.
WithoutInput_byId(peers, input) ==
  SelectSeq(peers, LAMBDA p : p.id # PeerIdString(input.of))

\* this.writablePeers.filter((p) => p.input !== input)
WithoutInput(peers, input) ==
  SelectSeq(peers, LAMBDA p : p.input # input)

\* The record of a client.sendMessage call of the poster.
SendCall ==
  [any |-> TRUE, blocked |-> now < floodUntil]

NoSend ==
  [any |-> FALSE, blocked |-> FALSE]

\* An invocation ends.
Done(t, why) ==
  finished' = [kind |-> t.kind, why |-> why]

\* main() up to `await service.init()`: connect, checkAuthorization and the
\* login flow; then init() awaits updateWritableGroups (TelegramService.ts:62).
InitLogin ==
  /\ mainPc = "init" /\ ~exited
  /\ mainPc' = "initRefresh"
  /\ UNCHANGED <<classVars, multiVars, sharedVars, groups_only, postMs, refreshMs, messagesList,
                 writablePeers, nextGen, refreshTimer, postTimer, tasks, finished>>

\* cleanup(code) up to `await service.disconnect()` (poster.ts:31-38).
CleanupStart ==
  /\ shuttingDown' = TRUE
  /\ refreshTimer' = 0
  /\ postTimer' = 0

\* init() throws (login failed): main() calls cleanup(1) (poster.ts:51-54).
InitLoginFails ==
  /\ mainPc = "init" /\ ~exited
  /\ mainPc' = "failed"
  /\ IF shuttingDown
       THEN UNCHANGED <<shuttingDown, refreshTimer, postTimer>>
       ELSE CleanupStart
  /\ UNCHANGED <<classVars, multiVars, now, exited, connected, floodUntil, sendLog, groups_only,
                 postMs, refreshMs, messagesList, writablePeers, nextGen, tasks, finished>>

\* updateWritableGroups after getDialogs resolved with batch b: the loop and
\* the assignment of line 134 run without an await between them.
AssignPeers(b) ==
  /\ writablePeers' = NextPeers(b, groups_only, nextGen)
  /\ nextGen' = nextGen + 1

\* getDialogs of init() resolves or rejects; main() goes on to the refresh of
\* poster.ts:67 and awaits its getDialogs.
InitRefreshReturns ==
  /\ mainPc = "initRefresh" /\ ~exited
  /\ \/ \E b \in Batches : AssignPeers(b)
     \/ UNCHANGED <<writablePeers, nextGen>>
  /\ mainPc' = "safeRefresh"
  /\ UNCHANGED <<classVars, multiVars, sharedVars, groups_only, postMs, refreshMs, messagesList,
                 refreshTimer, postTimer, tasks, finished>>

\* getDialogs of the refresh of poster.ts:67 resolves or rejects; main() then
\* creates both timers (poster.ts:70-91).
SafeRefreshReturns ==
  /\ mainPc = "safeRefresh" /\ ~exited
  /\ \/ \E b \in Batches : AssignPeers(b)
     \/ UNCHANGED <<writablePeers, nextGen>>
  /\ mainPc' = "scheduled"
  /\ refreshTimer' = SetInterval(refreshMs)
  /\ postTimer' = SetInterval(postMs)
  /\ UNCHANGED <<classVars, multiVars, sharedVars, groups_only, postMs, refreshMs, messagesList,
                 tasks, finished>>

\* A tick of refreshTimer: safeTask('refreshGroups') starts and awaits
\* getDialogs.
RefreshTick ==
  /\ ~exited /\ refreshTimer # 0 /\ now = refreshTimer
  /\ refreshTimer' = SetInterval(refreshMs)
  /\ tasks' = tasks \cup {Task("refresh", now, "refreshing", NoInput, "")}
  /\ UNCHANGED <<classVars, multiVars, sharedVars, mainPc, groups_only, postMs, refreshMs,
                 messagesList, writablePeers, nextGen, postTimer, finished>>

\* A tick of postTimer: postTask runs up to its first await (poster.ts:76-85,
\* TelegramService.ts:191-198, 166-168).
PostTick ==
  /\ ~exited /\ postTimer # 0 /\ now = postTimer
  /\ postTimer' = SetInterval(postMs)
  /\ LET t == Task("post", now, "sending", NoInput, "") IN
     IF UsableMessages(messagesList) = <<>>
       THEN /\ Done(t, "nomessages")
            /\ UNCHANGED <<tasks, sendLog>>
       ELSE IF writablePeers = <<>>
         THEN /\ tasks' = tasks \cup {[t EXCEPT !.pc = "refreshing", !.why = "nopeer"]}
              /\ UNCHANGED <<finished, sendLog>>
         ELSE \E i \in 1..Len(writablePeers) :
                /\ tasks' = tasks \cup {[t EXCEPT !.input = writablePeers[i].input]}
                /\ sendLog' = SendCall
                /\ UNCHANGED finished
  /\ UNCHANGED <<classVars, multiVars, now, shuttingDown, exited, connected, floodUntil, mainPc,
                 groups_only, postMs, refreshMs, messagesList, writablePeers, nextGen,
                 refreshTimer>>

\* client.sendMessage resolves: sendMessageTo returns true and postTask ends.
SendSucceeds(t) ==
  /\ ~exited /\ t \in tasks /\ t.pc = "sending"
  /\ tasks' = tasks \ {t}
  /\ Done(t, "sent")
  /\ UNCHANGED <<classVars, multiVars, sharedVars, mainPc, groups_only, postMs, refreshMs,
                 messagesList, writablePeers, nextGen, refreshTimer, postTimer>>

\* sleep((seconds + 1) * 1000), in seconds.
SleepFor(seconds) ==
  seconds + 1

\* A test that also sleeps a wait of exactly one hour.
ShouldSleep_upTo(seconds) ==
  seconds > 0 /\ seconds <= FloodSleepLimit

\* seconds > 0 && seconds < 3600
ShouldSleep(seconds) ==
  seconds > 0 /\ seconds < FloodSleepLimit

\* client.sendMessage rejects with FloodWaitError(s): sendMessageTo sleeps, or
\* returns false at once and postTask awaits updateWritableGroups
\* (TelegramService.ts:171-179, poster.ts:86-89).
SendFloods(t, s) ==
  /\ ~exited /\ t \in tasks /\ t.pc = "sending"
  /\ floodUntil' = Max(floodUntil, now + s)
  /\ tasks' = (tasks \ {t}) \cup
       {IF ShouldSleep(s)
          THEN [t EXCEPT !.pc = "sleeping", !.why = "flood", !.signal = now,
                         !.secs = s, !.wake = now + SleepFor(s)]
          ELSE [t EXCEPT !.pc = "refreshing", !.why = "flood"]}
  /\ UNCHANGED <<classVars, multiVars, now, shuttingDown, exited, connected, sendLog, mainPc,
                 groups_only, postMs, refreshMs, messagesList, writablePeers, nextGen,
                 refreshTimer, postTimer, finished>>

\* A postTask that returns after a failed send without refreshing.
SendFails_ends(t, msg) ==
  /\ ~exited /\ t \in tasks /\ t.pc = "sending"
  /\ writablePeers' = IF MatchesRemovalPattern(msg)
                        THEN WithoutInput(writablePeers, t.input)
                        ELSE writablePeers
  /\ tasks' = tasks \ {t}
  /\ Done(t, IF MatchesRemovalPattern(msg) THEN "rejected" ELSE "failed")
  /\ UNCHANGED <<classVars, multiVars, sharedVars, mainPc, groups_only, postMs, refreshMs,
                 messagesList, nextGen, refreshTimer, postTimer>>

\* client.sendMessage rejects with another error: the peer is filtered out
\* when the message matches, sendMessageTo returns false and postTask awaits
\* updateWritableGroups (TelegramService.ts:180-187, poster.ts:86-89).
SendFails(t, msg) ==
  /\ ~exited /\ t \in tasks /\ t.pc = "sending"
  /\ writablePeers' = IF MatchesRemovalPattern(msg)
                        THEN WithoutInput(writablePeers, t.input)
                        ELSE writablePeers
  /\ tasks' = (tasks \ {t}) \cup
       {[t EXCEPT !.pc = "refreshing",
                  !.why = IF MatchesRemovalPattern(msg) THEN "rejected" ELSE "failed"]}
  /\ UNCHANGED <<classVars, multiVars, sharedVars, mainPc, groups_only, postMs, refreshMs,
                 messagesList, nextGen, refreshTimer, postTimer, finished>>

\* A sendMessageTo that sends again when its sleep ends.
Wake_resend(t) ==
  /\ ~exited /\ t \in tasks /\ t.pc = "sleeping" /\ now = t.wake
  /\ tasks' = (tasks \ {t}) \cup
       {[t EXCEPT !.pc = "sending", !.signal = 0, !.secs = 0, !.wake = 0]}
  /\ UNCHANGED <<classVars, multiVars, sharedVars, mainPc, groups_only, postMs, refreshMs,
                 messagesList, writablePeers, nextGen, refreshTimer, postTimer, finished>>

\* The sleep of sendMessageTo ends: it returns false and postTask awaits
\* updateWritableGroups (TelegramService.ts:176-178, poster.ts:86-89).
Wake(t) ==
  /\ ~exited /\ t \in tasks /\ t.pc = "sleeping" /\ now = t.wake
  /\ tasks' = (tasks \ {t}) \cup
       {[t EXCEPT !.pc = "refreshing", !.signal = 0, !.secs = 0, !.wake = 0]}
  /\ UNCHANGED <<classVars, multiVars, sharedVars, mainPc, groups_only, postMs, refreshMs,
                 messagesList, writablePeers, nextGen, refreshTimer, postTimer, finished>>

\* getDialogs of an invocation resolves with batch b: the pool is replaced
\* and the invocation ends (TelegramService.ts:89-135).
RefreshReturns(t, b) ==
  /\ ~exited /\ t \in tasks /\ t.pc = "refreshing"
  /\ AssignPeers(b)
  /\ tasks' = tasks \ {t}
  /\ Done(t, t.why)
  /\ UNCHANGED <<classVars, multiVars, sharedVars, mainPc, groups_only, postMs, refreshMs,
                 messagesList, refreshTimer, postTimer>>

\* A failed refresh that leaves an empty pool behind.
RefreshFails_clears(t) ==
  /\ ~exited /\ t \in tasks /\ t.pc = "refreshing"
  /\ tasks' = tasks \ {t}
  /\ Done(t, IF t.kind = "refresh" THEN "listing-failed" ELSE t.why)
  /\ writablePeers' = <<>>
  /\ UNCHANGED <<classVars, multiVars, sharedVars, mainPc, groups_only, postMs, refreshMs,
                 messagesList, nextGen, refreshTimer, postTimer>>

\* A failed refresh that clears the refresh timer.
RefreshFails_cancels(t) ==
  /\ ~exited /\ t \in tasks /\ t.pc = "refreshing"
  /\ tasks' = tasks \ {t}
  /\ Done(t, IF t.kind = "refresh" THEN "listing-failed" ELSE t.why)
  /\ refreshTimer' = 0
  /\ UNCHANGED <<classVars, multiVars, sharedVars, mainPc, groups_only, postMs, refreshMs,
                 messagesList, writablePeers, nextGen, postTimer>>

\* getDialogs of an invocation rejects: logged, the invocation ends
\* (TelegramService.ts:136-138).
RefreshFails(t) ==
  /\ ~exited /\ t \in tasks /\ t.pc = "refreshing"
  /\ tasks' = tasks \ {t}
  /\ Done(t, IF t.kind = "refresh" THEN "listing-failed" ELSE t.why)
  /\ UNCHANGED <<classVars, multiVars, sharedVars, mainPc, groups_only, postMs, refreshMs,
                 messagesList, writablePeers, nextGen, refreshTimer, postTimer>>

\* SIGINT or SIGTERM: cleanup(0) up to `await service.disconnect()`
\* (poster.ts:31-38, 46-47).
Signal ==
  /\ ~exited /\ ~shuttingDown
  /\ mainPc \in {"init", "initRefresh", "safeRefresh", "scheduled"}
  /\ CleanupStart
  /\ UNCHANGED <<classVars, multiVars, now, exited, connected, floodUntil, sendLog, mainPc,
                 groups_only, postMs, refreshMs, messagesList, writablePeers, nextGen,
                 tasks, finished>>

\* disconnect() settles and cleanup reaches process.exit (poster.ts:38-43):
\* the process is gone, and with it its timers, its memory and whatever
\* invocation was still in flight.
CleanupExits ==
  /\ ~exited /\ shuttingDown
  /\ mainPc \in {"init", "initRefresh", "safeRefresh", "scheduled", "failed"}
  /\ connected' = FALSE
  /\ exited' = TRUE
  /\ finished' = [kind |-> "exit", why |-> IF tasks = {} THEN "idle" ELSE "interrupted"]
  /\ mainPc' = "exited"
  /\ tasks' = {}
  /\ writablePeers' = <<>>
  /\ refreshTimer' = 0
  /\ postTimer' = 0
  /\ sendLog' = NoSend
  /\ floodUntil' = 0
  /\ UNCHANGED <<classVars, multiVars, now, shuttingDown, groups_only, postMs, refreshMs,
                 messagesList, nextGen>>

\* The times at which a timer or a sleep is due.
PosterDeadlines ==
  ({refreshTimer, postTimer} \ {0}) \cup {t.wake : t \in {u \in tasks : u.pc = "sleeping"}}

Min(S) ==
  CHOOSE x \in S : \A y \in S : x <= y

\* Time passes up to the next deadline; a due timer or sleep runs first.
AdvancePoster ==
  /\ ~exited
  /\ mainPc \in {"init", "initRefresh", "safeRefresh", "scheduled", "failed"}
  /\ PosterDeadlines # {}
  /\ \A d \in PosterDeadlines : d > now
  /\ Min(PosterDeadlines) <= MaxTime
  /\ now' = Min(PosterDeadlines)
  /\ floodUntil' = IF floodUntil <= now' THEN 0 ELSE floodUntil
  /\ UNCHANGED <<classVars, multiVars, shuttingDown, exited, connected, sendLog, posterVars>>

-----------------------------------------------------------------------------
(* multi_commenter.ts.                                                     *)

\* What multi_commenter never touches.
posterFrozen == <<mainPc, groups_only, postMs, refreshMs, messagesList, writablePeers,
                  refreshTimer, postTimer, tasks>>

\* New-message events whose handlers may be in flight at once.
MaxHandlers ==
  1

\* config.users as configured.
UserConfigs ==
  {<<1>>, <<1, 2>>}

\* config.runtime.comments_refresh_minutes, in tenths of a minute.
CommentsRefreshIntervals ==
  {20}

\* config.runtime.ignore_probability, in tenths.
IgnoreConfigs ==
  {5, 10}

\* Values of Math.random(), in tenths: some value of [0, 1).
RandomDraws ==
  {0, 9}

\* What fetchCommentTemplates may return ([] also when the fetch failed,
\* multi_commenter.ts:96-99).
TemplateLists ==
  {<<>>, <<"a">>, <<"b", "c">>}

\* The conversations new messages arrive in.
EventChats ==
  {MegaA}

\* Authors of new messages: the user id of an account, or 0 when fromId is
\* not a PeerUser (then no author is compared).
EventAuthors ==
  {0, 1, 2}

\* A loop that keeps the first account's ids whatever the others hold.
Intersect_first(idSets, i, common) ==
  common

RECURSIVE Intersect(_, _, _)
\* The loop of multi_commenter.ts:187-191 from index i on.
Intersect(idSets, i, common) ==
  IF i > Len(idSets) THEN common
  ELSE Intersect(idSets, i + 1, {id \in common : id \in idSets[i]})

\* The ids that some account holds.
CommonIds_union(cs) ==
  UNION {DOMAIN cs[i].writablePeers : i \in 1..Len(cs)}

\* multi_commenter.ts:185-191.
CommonIds(cs) ==
  LET idSets == [i \in 1..Len(cs) |-> DOMAIN cs[i].writablePeers]
  IN Intersect(idSets, 2, idSets[1])

\* process.exit: the process is gone, and with it its timer, its memory and
\* whatever invocation was still in flight.
MExit ==
  /\ exited' = TRUE
  /\ connected' = FALSE
  /\ finished' = [kind |-> "exit",
                  why |-> IF handlers = {} /\ fetches = {} THEN "idle" ELSE "interrupted"]
  /\ mPc' = "exited"
  /\ mSelf' = 0
  /\ clients' = <<>>
  /\ commonIds' = {}
  /\ commentsCache' = <<>>
  /\ commentsTimer' = 0
  /\ fetches' = {}
  /\ handlers' = {}
  /\ UNCHANGED <<classVars, posterFrozen, now, shuttingDown, floodUntil, sendLog, nextGen, users,
                 ignore_probability>>

\* connect, checkAuthorization and loginClient for the next user
\* (multi_commenter.ts:144-162); getMe is awaited next.
MConnect ==
  /\ mPc = "connect" /\ ~exited
  /\ mPc' = "getMe"
  /\ UNCHANGED <<classVars, posterFrozen, sharedVars, nextGen, finished, users,
                 ignore_probability, mSelf, clients, commonIds, commentsCache,
                 commentsTimer, fetches, handlers>>

\* checkAuthorization or loginClient throws: main() rejects and the catch of
\* multi_commenter.ts:298-301 exits.
MConnectFails ==
  /\ mPc = "connect" /\ ~exited
  /\ MExit

\* getMe resolves: selfId is the account's user id (multi_commenter.ts:166-167).
MGetMe ==
  /\ mPc = "getMe" /\ ~exited
  /\ mSelf' = users[Len(clients) + 1]
  /\ mPc' = "peers"
  /\ UNCHANGED <<classVars, posterFrozen, sharedVars, nextGen, finished, users,
                 ignore_probability, clients, commonIds, commentsCache,
                 commentsTimer, fetches, handlers>>

\* getMe throws: the catch block fetches the peers and pushes a ClientState
\* without selfId (multi_commenter.ts:171-175).
MGetMeFails ==
  /\ mPc = "getMe" /\ ~exited
  /\ mSelf' = 0
  /\ mPc' = "peersInCatch"
  /\ UNCHANGED <<classVars, posterFrozen, sharedVars, nextGen, finished, users,
                 ignore_probability, clients, commonIds, commentsCache,
                 commentsTimer, fetches, handlers>>

\* clients.push(...) and what follows it: the next user, or, after the last,
\* the intersection and the await of the first template fetch
\* (multi_commenter.ts:170, 174, 178-203).
PushClient(selfId, b) ==
  LET cs == Append(clients, [acct |-> users[Len(clients) + 1], selfId |-> selfId,
                             writablePeers |-> GetWritablePeers(b, groups_only, nextGen)])
  IN /\ clients' = cs
     /\ nextGen' = nextGen + 1
     /\ mSelf' = 0
     /\ IF Len(cs) < Len(users)
          THEN mPc' = "connect" /\ UNCHANGED commonIds
          ELSE mPc' = "initialFetch" /\ commonIds' = CommonIds(cs)

\* getDialogs of line 168 resolves with batch b.
MPeers(b) ==
  /\ mPc = "peers" /\ ~exited
  /\ PushClient(mSelf, b)
  /\ UNCHANGED <<classVars, posterFrozen, sharedVars, finished, users,
                 ignore_probability, commentsCache, commentsTimer, fetches, handlers>>

\* getDialogs of line 168 rejects: the catch block of line 171 runs.
MPeersFails ==
  /\ mPc = "peers" /\ ~exited
  /\ mPc' = "peersInCatch"
  /\ UNCHANGED <<classVars, posterFrozen, sharedVars, nextGen, finished, users,
                 ignore_probability, mSelf, clients, commonIds, commentsCache,
                 commentsTimer, fetches, handlers>>

\* getDialogs of line 172 resolves with batch b: pushed without selfId.
MPeersInCatch(b) ==
  /\ mPc = "peersInCatch" /\ ~exited
  /\ PushClient(0, b)
  /\ UNCHANGED <<classVars, posterFrozen, sharedVars, finished, users,
                 ignore_probability, commentsCache, commentsTimer, fetches, handlers>>

\* getDialogs of line 172 rejects: main() rejects and the process exits.
MPeersInCatchFails ==
  /\ mPc = "peersInCatch" /\ ~exited
  /\ MExit

\* The first fetchCommentTemplates returns; the timer is created and the
\* handler registered (multi_commenter.ts:203-295).
MInitialFetch(list) ==
  /\ mPc = "initialFetch" /\ ~exited
  /\ commentsCache' = list
  /\ commentsTimer' = SetInterval(refreshMs)
  /\ mPc' = "listening"
  /\ UNCHANGED <<classVars, posterFrozen, sharedVars, nextGen, finished, users,
                 ignore_probability, mSelf, clients, commonIds, fetches, handlers>>

\* A tick of commentsTimer: the callback starts and awaits
\* fetchCommentTemplates (multi_commenter.ts:212-214).
CommentsTick ==
  /\ ~exited /\ commentsTimer # 0 /\ now = commentsTimer
  /\ commentsTimer' = SetInterval(refreshMs)
  /\ fetches' = fetches \cup {now}
  /\ UNCHANGED <<classVars, posterFrozen, sharedVars, nextGen, finished, mPc, users,
                 ignore_probability, mSelf, clients, commonIds, commentsCache,
                 handlers>>

\* The fetch of a commentsTimer callback returns (multi_commenter.ts:215-220).
CommentsFetchReturns(f, list) ==
  /\ ~exited /\ f \in fetches
  /\ fetches' = fetches \ {f}
  /\ commentsCache' = IF Len(list) > 0 THEN list ELSE commentsCache
  /\ finished' = [kind |-> "refreshTemplates", why |-> IF Len(list) > 0 THEN "replaced" ELSE "kept"]
  /\ UNCHANGED <<classVars, posterFrozen, sharedVars, nextGen, mPc, users,
                 ignore_probability, mSelf, clients, commonIds, commentsTimer,
                 handlers>>

\* An in-flight invocation of the new-message handler.
\*   pc: "getChat"  awaiting event.getChat()          (multi_commenter.ts:236)
\*       "fetching" awaiting fetchCommentTemplates    (multi_commenter.ts:266)
\*       "sending"  awaiting chosen.client.sendMessage (multi_commenter.ts:280)
\*   acct: the account of `chosen` (0: not chosen yet)
Handler(ev, chat, author) ==
  [ev |-> ev, pc |-> "getChat", chat |-> chat, author |-> author, acct |-> 0]

\* A new message arrives at the watcher: the handler starts and awaits
\* event.getChat().
NewMessage(chat, author) ==
  /\ ~exited /\ mPc = "listening" /\ Cardinality(handlers) < MaxHandlers
  /\ handlers' = handlers \cup
       {Handler(Min((1..MaxHandlers) \ {h.ev : h \in handlers}), chat, author)}
  /\ UNCHANGED <<classVars, posterFrozen, sharedVars, nextGen, finished, mPc, users,
                 ignore_probability, mSelf, clients, commonIds, commentsCache,
                 commentsTimer, fetches>>

\* The handler returns.
HandlerEnds(h, why) ==
  /\ handlers' = handlers \ {h}
  /\ finished' = [kind |-> "handler", why |-> why]

\* multi_commenter.ts:242-253: the message is authored by one of our clients.
AuthoredByUs(author) ==
  /\ author # 0
  /\ \E i \in 1..Len(clients) : clients[i].selfId # 0 /\ clients[i].selfId = author

\* multi_commenter.ts:272-280: a client is picked, its input for the peer
\* looked up, and sendMessage awaited.
Reply(h) ==
  \E i \in 1..Len(clients) :
    IF PeerIdStringMulti(h.chat) \in DOMAIN clients[i].writablePeers
      THEN /\ handlers' = (handlers \ {h}) \cup
                 {[h EXCEPT !.pc = "sending", !.acct = clients[i].acct]}
           /\ UNCHANGED finished
      ELSE HandlerEnds(h, "no-input")

\* A check against the watcher's own pool.
IsCommon_watcher(pid) ==
  pid \in DOMAIN clients[1].writablePeers

\* commonIds.has(pid) (multi_commenter.ts:239).
IsCommon(pid) ==
  pid \in commonIds

\* A gate that lets the largest draw through.
Ignore_strict(r, p) ==
  r + 1 < p

\* const ignore = Math.random() < config.runtime.ignore_probability, draw r
\* and probability p in tenths.
Ignore(r, p) ==
  r < p

\* event.getChat() resolves: the handler runs up to its next await
\* (multi_commenter.ts:237-280).
HChatResolves(h) ==
  /\ ~exited /\ h \in handlers /\ h.pc = "getChat"
  /\ IF ~IsCommon(PeerIdStringMulti(h.chat))
       THEN HandlerEnds(h, "not-common")
     ELSE IF AuthoredByUs(h.author)
       THEN HandlerEnds(h, "own-author")
     ELSE \E r \in RandomDraws :
       IF Ignore(r, ignore_probability)
         THEN HandlerEnds(h, "ignored")
       ELSE IF commentsCache # <<>>
         THEN Reply(h)
         ELSE /\ handlers' = (handlers \ {h}) \cup {[h EXCEPT !.pc = "fetching"]}
              /\ UNCHANGED finished
  /\ UNCHANGED <<classVars, posterFrozen, sharedVars, nextGen, mPc, users, ignore_probability, mSelf, clients,
                 commonIds, commentsCache, commentsTimer, fetches>>

\* A getChat failure that escapes the handler and ends the subscription.
HChatMissing_unsubscribes(h) ==
  /\ ~exited /\ h \in handlers /\ h.pc = "getChat"
  /\ HandlerEnds(h, "no-chat")
  /\ mPc' = "stopped"
  /\ UNCHANGED <<classVars, posterFrozen, sharedVars, nextGen, users,
                 ignore_probability, mSelf, clients, commonIds, commentsCache,
                 commentsTimer, fetches>>

\* event.getChat() resolves to nothing or throws: the handler returns
\* (multi_commenter.ts:237, 290-292).
HChatMissing(h) ==
  /\ ~exited /\ h \in handlers /\ h.pc = "getChat"
  /\ HandlerEnds(h, "no-chat")
  /\ UNCHANGED <<classVars, posterFrozen, sharedVars, nextGen, mPc, users,
                 ignore_probability, mSelf, clients, commonIds, commentsCache,
                 commentsTimer, fetches>>

\* The last-resort fetch of the handler returns (multi_commenter.ts:266-280).
HFetchReturns(h, list) ==
  /\ ~exited /\ h \in handlers /\ h.pc = "fetching"
  /\ commentsCache' = list
  /\ IF list = <<>>
       THEN HandlerEnds(h, "no-comment")
       ELSE Reply(h)
  /\ UNCHANGED <<classVars, posterFrozen, sharedVars, nextGen, mPc, users, ignore_probability, mSelf, clients,
                 commonIds, commentsTimer, fetches>>

\* sendMessage of the handler resolves (multi_commenter.ts:280-281).
HSendSucceeds(h) ==
  /\ ~exited /\ h \in handlers /\ h.pc = "sending"
  /\ HandlerEnds(h, "sent")
  /\ UNCHANGED <<classVars, posterFrozen, sharedVars, nextGen, mPc, users,
                 ignore_probability, mSelf, clients, commonIds, commentsCache,
                 commentsTimer, fetches>>

\* A handler that starts over from the template fetch after a flood wait.
HSendFloods_again(h, s) ==
  /\ ~exited /\ h \in handlers /\ h.pc = "sending"
  /\ handlers' = (handlers \ {h}) \cup {[h EXCEPT !.pc = "fetching"]}
  /\ UNCHANGED <<classVars, posterFrozen, sharedVars, nextGen, finished, mPc, users,
                 ignore_probability, mSelf, clients, commonIds, commentsCache,
                 commentsTimer, fetches>>

\* sendMessage of the handler rejects with FloodWaitError(s): logged, the
\* handler returns (multi_commenter.ts:283-287).
HSendFloods(h, s) ==
  /\ ~exited /\ h \in handlers /\ h.pc = "sending"
  /\ HandlerEnds(h, "flood")
  /\ UNCHANGED <<classVars, posterFrozen, sharedVars, nextGen, mPc, users, ignore_probability, mSelf, clients, commonIds,
                 commentsCache, commentsTimer, fetches>>

\* A handler that runs the event again after a failed send.
HSendFails_retries(h, msg) ==
  /\ ~exited /\ h \in handlers /\ h.pc = "sending"
  /\ handlers' = (handlers \ {h}) \cup {[h EXCEPT !.pc = "getChat", !.acct = 0]}
  /\ UNCHANGED <<classVars, posterFrozen, sharedVars, nextGen, finished, mPc, users,
                 ignore_probability, mSelf, clients, commonIds, commentsCache,
                 commentsTimer, fetches>>

\* sendMessage of the handler rejects with another error: logged
\* (multi_commenter.ts:288).
HSendFails(h, msg) ==
  /\ ~exited /\ h \in handlers /\ h.pc = "sending"
  /\ HandlerEnds(h, "error")
  /\ UNCHANGED <<classVars, posterFrozen, sharedVars, nextGen, mPc, users,
                 ignore_probability, mSelf, clients, commonIds, commentsCache,
                 commentsTimer, fetches>>

\* SIGINT or SIGTERM: cleanup(0) up to the first `await c.client.disconnect()`
\* (multi_commenter.ts:127-134, 140-141).
MSignal ==
  /\ ~exited /\ ~shuttingDown /\ mPc # "off"
  /\ shuttingDown' = TRUE
  /\ commentsTimer' = 0
  /\ UNCHANGED <<classVars, posterFrozen, now, exited, connected, floodUntil, sendLog,
                 nextGen, finished, mPc, users, ignore_probability, mSelf, clients,
                 commonIds, commentsCache, fetches, handlers>>

\* The disconnects settle and cleanup reaches process.exit
\* (multi_commenter.ts:133-138).
MCleanupExits ==
  /\ ~exited /\ shuttingDown /\ mPc \notin {"off", "exited"}
  /\ MExit

\* Time passes up to the next tick of commentsTimer.
AdvanceMulti ==
  /\ ~exited /\ mPc # "off"
  /\ commentsTimer # 0 /\ commentsTimer > now /\ commentsTimer <= MaxTime
  /\ now' = commentsTimer
  /\ UNCHANGED <<classVars, posterFrozen, shuttingDown, exited, connected, floodUntil,
                 sendLog, nextGen, finished, multiVars>>

SharedInit ==
  /\ now = 0
  /\ shuttingDown = FALSE
  /\ exited = FALSE
  /\ connected = TRUE
  /\ floodUntil = 0
  /\ sendLog = NoSend

PosterIdle ==
  /\ mainPc = "off"
  /\ postMs = 0
  /\ messagesList = <<>>
  /\ writablePeers = <<>>
  /\ refreshTimer = 0
  /\ postTimer = 0
  /\ tasks = {}
  /\ finished = [kind |-> "none", why |-> ""]

MultiIdle ==
  /\ mPc = "off"
  /\ users = <<>>
  /\ ignore_probability = 0
  /\ mSelf = 0
  /\ clients = <<>>
  /\ commonIds = {}
  /\ commentsCache = <<>>
  /\ commentsTimer = 0
  /\ fetches = {}
  /\ handlers = {}

InitClassify ==
  /\ hDialogs \in HarnessBatches
  /\ hGroupsOnly \in BOOLEAN
  /\ hPeers = <<>>
  /\ hMap = EmptyMap
  /\ hDone = {}
  /\ SharedInit
  /\ PosterIdle
  /\ groups_only = FALSE
  /\ refreshMs = 0
  /\ nextGen = 1
  /\ MultiIdle

NextClassify ==
  \/ HUpdateWritableGroups
  \/ HGetWritablePeers

SpecClassify ==
  InitClassify /\ [][NextClassify]_vars

\* The state when main() of poster.ts starts, the configuration loaded.
InitPoster ==
  /\ ClassIdle
  /\ SharedInit
  /\ mainPc = "init"
  /\ groups_only \in {TRUE}
  /\ postMs \in {Minutes(n) : n \in PostIntervals}
  /\ refreshMs \in {Minutes(n) : n \in RefreshIntervals}
  /\ messagesList \in MessageConfigs
  /\ writablePeers = <<>>
  /\ nextGen = 1
  /\ refreshTimer = 0
  /\ postTimer = 0
  /\ tasks = {}
  /\ finished = [kind |-> "none", why |-> ""]
  /\ MultiIdle

\* The state when main() of multi_commenter.ts starts, the configuration
\* loaded.
InitMulti ==
  /\ ClassIdle
  /\ SharedInit
  /\ PosterIdle
  /\ groups_only \in {TRUE}
  /\ refreshMs \in {Minutes(n) : n \in CommentsRefreshIntervals}
  /\ nextGen = 1
  /\ mPc = "connect"
  /\ users \in UserConfigs
  /\ ignore_probability \in IgnoreConfigs
  /\ mSelf = 0
  /\ clients = <<>>
  /\ commonIds = {}
  /\ commentsCache = <<>>
  /\ commentsTimer = 0
  /\ fetches = {}
  /\ handlers = {}

NextMulti ==
  \/ MConnect
  \/ MConnectFails
  \/ MGetMe
  \/ MGetMeFails
  \/ \E b \in Batches : MPeers(b)
  \/ MPeersFails
  \/ \E b \in Batches : MPeersInCatch(b)
  \/ MPeersInCatchFails
  \/ \E list \in TemplateLists : MInitialFetch(list)
  \/ CommentsTick
  \/ \E f \in fetches, list \in TemplateLists : CommentsFetchReturns(f, list)
  \/ \E chat \in EventChats, author \in EventAuthors : NewMessage(chat, author)
  \/ \E h \in handlers : HChatResolves(h)
  \/ \E h \in handlers : HChatMissing(h)
  \/ \E h \in handlers, list \in TemplateLists : HFetchReturns(h, list)
  \/ \E h \in handlers : HSendSucceeds(h)
  \/ \E h \in handlers, s \in ReplyFloodSeconds : HSendFloods(h, s)
  \/ \E h \in handlers, msg \in ErrorMessages : HSendFails(h, msg)
  \/ MSignal
  \/ MCleanupExits
  \/ AdvanceMulti

SpecMulti ==
  InitMulti /\ [][NextMulti]_vars

NextPoster ==
  \/ InitLogin
  \/ InitLoginFails
  \/ InitRefreshReturns
  \/ SafeRefreshReturns
  \/ RefreshTick
  \/ PostTick
  \/ \E t \in tasks : SendSucceeds(t)
  \/ \E t \in tasks, s \in FloodSeconds : SendFloods(t, s)
  \/ \E t \in tasks, msg \in ErrorMessages : SendFails(t, msg)
  \/ \E t \in tasks : Wake(t)
  \/ \E t \in tasks, b \in Batches : RefreshReturns(t, b)
  \/ \E t \in tasks : RefreshFails(t)
  \/ Signal
  \/ CleanupExits
  \/ AdvancePoster

SpecPoster ==
  InitPoster /\ [][NextPoster]_vars

-----------------------------------------------------------------------------
(* Properties.                                                             *)

\* C1: while the account's flood window is still open (a flood signal of s
\* seconds came less than s seconds ago), no send attempt of the poster
\* invokes client.sendMessage.  The code keeps no record of the window, and
\* sendMessageTo calls client.sendMessage unconditionally: violated.
C1_NoSendInsideFloodWindow ==
  sendLog.any => ~sendLog.blocked

PeriodOf(kind) ==
  IF kind = "post" THEN postMs ELSE refreshMs

IdsOf(peers) ==
  {peers[i].id : i \in 1..Len(peers)}

\* C3: when the post-message invocation that saw a permanent rejection
\* completes, the rejected conversation is not in the pool.  The refresh that
\* postTask awaits after the failed send puts it back, and the filter removes
\* nothing when the pool was replaced while the send was awaited: violated.
C3_RejectedPeerAbsentAtCompletion ==
  [][\A t \in tasks :
       (t.why = "rejected" /\ t \notin tasks' /\ ~exited')
         => PeerIdString(t.input.of) \notin IdsOf(writablePeers')]_vars

\* The user ids of the managed accounts.
ManagedIds ==
  {clients[i].acct : i \in 1..Len(clients)}

\* C4: no reply is sent for a message written by a managed account.  An
\* account pushed by the catch block of the startup loop has no selfId and is
\* not recognised as an author: violated.
C4_NoReplyToManagedAuthor ==
  \A h \in handlers : h.pc = "sending" => h.author \notin ManagedIds

\* C5: the template cache never goes from non-empty to empty while the
\* process runs.  The handler's on-demand fetch assigns its result
\* unconditionally: violated.
C5_CacheNeverEmptied ==
  [][(~exited' /\ commentsCache # <<>>) => commentsCache' # <<>>]_vars

\* The send-messages restriction of a dialog, default or account-specific.
SendRestricted(d) ==
  d.bannedSend \/ d.defaultBannedSend

\* C6: no conversation whose default or account-specific restriction flags
\* include send-messages is classified Eligible, by either classifier.  A
\* Channel is tested for bannedRights only and a Chat for defaultBannedRights
\* only: violated.
C6_SendRestrictedNeverEligible ==
  /\ \A i \in 1..Len(hPeers) : ~SendRestricted(hPeers[i].input.of)
  /\ \A id \in DOMAIN hMap : ~SendRestricted(hMap[id].of)

\* C7: no conversation flagged broadcast is classified Eligible, whatever
\* groups_only is: neither classifier puts a broadcast channel into a pool.
C7_BroadcastNeverEligible ==
  /\ \A i \in 1..Len(hPeers) : ~hPeers[i].input.of.broadcast
  /\ \A id \in DOMAIN hMap : ~hMap[id].of.broadcast

\* C7 witness: both classifiers have passed over a batch holding a broadcast
\* channel that every other test of the Channel branch lets through, next to
\* a conversation that was kept.
C7_Witness ==
  /\ hDone = {"service", "multi"}
  /\ hPeers # <<>>
  /\ hMap # EmptyMap
  /\ \E i \in 1..Len(hDialogs) :
       LET d == hDialogs[i] IN
         /\ d.cls = "Channel" /\ d.broadcast /\ d.megagroup
         /\ d.input /\ d.isGroup /\ ~d.left /\ ~d.bannedSend

\* C8: the process exits only when no invocation is in flight.  cleanup
\* awaits disconnect() alone and then calls process.exit: violated.
C8_ExitInterruptsNothing ==
  finished.kind = "exit" => finished.why = "idle"

\* C9 as stated: the pool changes only by the assignment of a complete
\* classification pass.  sendMessageTo assigns a filtered copy: violated.
C9_PoolWrittenOnlyByRefresh ==
  [][(writablePeers' # writablePeers /\ ~exited')
       => /\ nextGen' = nextGen + 1
          /\ \E b \in Batches : writablePeers' = NextPeers(b, groups_only, nextGen)]_vars

\* C9, amended: the pool changes only by assignment of a whole new array:
\* the result of one complete classification pass, or, when a send is
\* rejected permanently, the previous pool without the peers whose input is
\* the object the send was made with.
C9_PoolReplacedByRefreshOrRejection ==
  [][(writablePeers' # writablePeers /\ ~exited')
       => \/ /\ nextGen' = nextGen + 1
             /\ \E b \in Batches : writablePeers' = NextPeers(b, groups_only, nextGen)
          \/ /\ nextGen' = nextGen
             /\ \E t \in tasks :
                  /\ t.pc = "sending"
                  /\ t \notin tasks'
                  /\ writablePeers' = SelectSeq(writablePeers, LAMBDA p : p.input # t.input)]_vars

\* C9 witness: a rejected send has taken its peer out of the pool, the other
\* peer of the same classification pass is still there.
C9_Witness ==
  \E t \in tasks :
    /\ t.why = "rejected"
    /\ writablePeers # <<>>
    /\ \A i \in 1..Len(writablePeers) :
         /\ writablePeers[i].input.gen = t.input.gen
         /\ writablePeers[i].input # t.input

\* C10: a flood signal of s seconds, 1 <= s < 3600, suspends the invocation
\* for at least s and less than s + 2 seconds, and from the signal on the
\* account is blocked for s seconds: no send is started for it.  The wait is
\* s + 1, but nothing records the block (see C1) and the next tick sends:
\* violated.
C10_FloodWaitAndBlock ==
  [][\A t \in tasks :
       t.pc = "sleeping" =>
         /\ t.wake - t.signal >= t.secs
         /\ t.wake - t.signal < t.secs + 2
         /\ now < t.signal + t.secs => \A u \in tasks' \ tasks : u.pc # "sending"]_vars

\* C11: a flood signal of zero seconds or of one hour and more suspends
\* nothing: at the step that handles it sendMessageTo has returned false
\* (postTask is already awaiting its refresh), no sleep was started, no time
\* has passed and the pool is what it was.
C11_NoSleepOutsideBounds ==
  [][\A t \in tasks : \A s \in FloodSeconds :
       (t.pc = "sending" /\ (s <= 0 \/ s >= 3600) /\ SendFloods(t, s))
         => /\ \E u \in tasks' \ tasks :
                 /\ u.kind = t.kind /\ u.started = t.started
                 /\ u.pc = "refreshing" /\ u.why = "flood" /\ u.wake = 0
            /\ \A u \in tasks' : u.pc = "sleeping" => u \in tasks
            /\ now' = now
            /\ writablePeers' = writablePeers]_vars

\* C11 witness: a send was answered with a flood wait of one hour or more and
\* its invocation is already past sendMessageTo, at the time of the signal.
C11_Witness ==
  \E t \in tasks :
    /\ t.why = "flood" /\ t.pc = "refreshing"
    /\ now = t.started
    /\ floodUntil >= now + FloodSleepLimit
    /\ writablePeers # <<>>

\* Tasks t and u are states of one invocation of a timer callback.
SameInvocation(t, u) ==
  t.kind = u.kind /\ t.started = u.started

\* C12: an invocation calls client.sendMessage only when it starts, sleeps
\* only as the answer to that one call, and after the sleep goes on to its
\* refresh: one firing of post-message makes at most one send call and
\* waits at most once.
C12_OneSendOneSleep ==
  [][/\ \A u \in tasks' \ tasks :
          u.pc = "sending" =>
            /\ u.started = now
            /\ \A t \in tasks : ~SameInvocation(t, u)
     /\ \A u \in tasks' \ tasks :
          u.pc = "sleeping" =>
            \E t \in tasks \ tasks' : SameInvocation(t, u) /\ t.pc = "sending"
     /\ \A t \in tasks \ tasks' :
          t.pc = "sleeping" =>
            \/ exited'
            \/ \E u \in tasks' \ tasks : SameInvocation(t, u) /\ u.pc = "refreshing"]_vars

\* C12 witness: the flood sleep of an invocation is over and the invocation
\* is awaiting its refresh.
C12_Witness ==
  \E t \in tasks :
    /\ t.why = "flood" /\ t.pc = "refreshing"
    /\ now = t.started + SleepFor(30)

\* The ids of the pool of the i-th connected account.
PoolIds(i) ==
  DOMAIN clients[i].writablePeers

\* C13: once the startup loop is over, commonIds is exactly the set of ids
\* that every connected account's pool holds: the one pool's ids when there
\* is one account, and empty as soon as one pool is empty.
C13_CommonIdsIsIntersection ==
  mPc \in {"initialFetch", "listening"} =>
    /\ commonIds = {id \in UNION {PoolIds(i) : i \in 1..Len(clients)} :
                      \A i \in 1..Len(clients) : id \in PoolIds(i)}
    /\ Len(clients) = 1 => commonIds = PoolIds(1)
    /\ (\E i \in 1..Len(clients) : PoolIds(i) = {}) => commonIds = {}

\* C13 witness: two accounts with different pools that share a conversation.
C13_Witness ==
  /\ mPc = "listening"
  /\ Len(clients) = 2
  /\ PoolIds(1) # PoolIds(2)
  /\ commonIds # {}
  /\ commonIds # PoolIds(1)

\* The positions of the batch whose dialog the poster's classifier accepts.
Accepted ==
  {j \in 1..Len(hDialogs) : Eligible(hDialogs[j], hGroupsOnly)}

\* The positions of the batch whose dialog getWritablePeers accepts.
AcceptedMulti ==
  {j \in 1..Len(hDialogs) : EligibleMulti(hDialogs[j], hGroupsOnly)}

TimerStep(before, after, period) ==
  \/ before = 0 /\ mainPc = "safeRefresh" /\ after = now + period
  \/ before = now /\ after = now + period
  \/ after = 0 /\ (exited' \/ (~shuttingDown /\ shuttingDown'))

C16_ProbabilityOneDropsAll ==
  ignore_probability = 10 =>
    /\ \A h \in handlers : h.pc = "getChat"
    /\ finished.kind = "handler" =>
         finished.why \in {"not-common", "own-author", "ignored", "no-chat"}

\* C16 witness: with ignore_probability = 1 an event in a common
\* conversation, not written by a managed account, was dropped at the gate.
C16_Witness ==
  /\ ignore_probability = 10
  /\ finished = [kind |-> "handler", why |-> "ignored"]
  /\ commentsCache # <<>>

\* The configured list has no entry with a character other than a blank.
AllBlank(list) ==
  \A i \in 1..Len(list) : \A k \in 1..Len(list[i]) : list[i][k] = " "

Continues(t, u) ==
  u \in tasks' \ tasks /\ SameInvocation(t, u)

\* C18: a post-message invocation whose send did not succeed (no peer, flood
\* wait slept or not, rejected, failed) goes on to one refresh of the pool and
\* ends when that refresh returns; an invocation whose send succeeded ends at
\* once and refreshes nothing.
C18_RefreshAfterFailedSend ==
  [][/\ \A u \in tasks' \ tasks :
          (u.kind = "post" /\ \A t \in tasks : ~SameInvocation(t, u)) =>
            u.pc = "sending" \/ (u.pc = "refreshing" /\ u.why = "nopeer")
     /\ \A t \in tasks \ tasks' :
          (t.kind = "post" /\ ~exited') =>
            \/ /\ t.pc = "sending"
               /\ \E u \in tasks' : /\ Continues(t, u)
                                    /\ u.why \in {"flood", "rejected", "failed"}
                                    /\ u.pc \in {"sleeping", "refreshing"}
            \/ /\ t.pc = "sending"
               /\ \A u \in tasks' : ~SameInvocation(t, u)
               /\ finished' = [kind |-> "post", why |-> "sent"]
               /\ writablePeers' = writablePeers /\ nextGen' = nextGen
            \/ /\ t.pc = "sleeping"
               /\ \E u \in tasks' : Continues(t, u) /\ u.pc = "refreshing" /\ u.why = t.why
            \/ /\ t.pc = "refreshing"
               /\ t.why \in {"nopeer", "flood", "rejected", "failed"}
               /\ \A u \in tasks' : ~SameInvocation(t, u)
               /\ finished' = [kind |-> "post", why |-> t.why]]_vars

\* C18 witness: a post-message invocation whose send was rejected has ended,
\* after its refresh replaced the pool.
C18_Witness ==
  /\ finished = [kind |-> "post", why |-> "rejected"]
  /\ writablePeers # <<>>
  /\ \A i \in 1..Len(writablePeers) : writablePeers[i].input.gen = nextGen - 1

\* C19: a send that fails with an error that is neither a flood wait nor one
\* of the five permanent kinds leaves the pool as it was: the targeted peer
\* and all the others stay.
C19_OtherErrorKeepsPool ==
  [][\A t \in tasks : \A msg \in ErrorMessages \ RemovalPattern :
       SendFails(t, msg) => writablePeers' = writablePeers]_vars

\* C19 witness: a send has failed with such an error and the peer it was
\* made to is still in the pool, together with another one.
C19_Witness ==
  \E t \in tasks :
    /\ t.why = "failed" /\ t.pc = "refreshing"
    /\ Len(writablePeers) = 2
    /\ \E i \in 1..Len(writablePeers) : writablePeers[i].input = t.input

\* Dialogs d and e are of one conversation: same kind, same numeric id.
SameConversation(d, e) ==
  d.cls = e.cls /\ d.num = e.num

\* C20: the id of a peer depends on nothing but the kind and the numeric id
\* of its conversation: two dialogs of one conversation, whatever else they
\* carry, get the same id within the poster's pool, and the id the poster's
\* pass gives is the id an account's Map of the multi-account script has.
C20_IdFromKindAndNumber ==
  /\ \A i, j \in 1..Len(hPeers) :
       SameConversation(hPeers[i].input.of, hPeers[j].input.of) => hPeers[i].id = hPeers[j].id
  /\ \A i \in 1..Len(hPeers) : \A id \in DOMAIN hMap :
       SameConversation(hPeers[i].input.of, hMap[id].of) => hPeers[i].id = id
  /\ \A i \in 1..Len(hPeers) :
       hPeers[i].input.of.cls \in {"Channel", "Chat", "User"} => hPeers[i].id.n = hPeers[i].input.of.num

\* C20 witness: both passes have run over a batch that lists one conversation
\* twice with different flags, and both entries were kept.
C20_Witness ==
  /\ hDone = {"service", "multi"}
  /\ Len(hPeers) = 2
  /\ hPeers[1].input.of # hPeers[2].input.of
  /\ SameConversation(hPeers[1].input.of, hPeers[2].input.of)
  /\ hPeers[1].id \in DOMAIN hMap

\* C21: whatever happens while an event is handled, the watcher keeps its
\* subscription: as long as the process runs, a listening script stays
\* listening, so the handler starts again for the next message.
C21_HandlerFailureKeepsListening ==
  [][(mPc = "listening" /\ ~exited') => mPc' = "listening"]_vars

\* C21 witness: after an event whose reply send failed, the handler of a
\* later event has got as far as its own reply send.
C21_Witness ==
  /\ finished = [kind |-> "handler", why |-> "error"]
  /\ \E h \in handlers : h.pc = "sending"

\* C22: once the script listens, every id of commonIds is a key of every
\* account's Map, so the lookup of the chosen account's input never comes
\* back empty and no event is dropped for it.
C22_CommonIdsInEveryPool ==
  mPc = "listening" =>
    /\ \A id \in commonIds : \A i \in 1..Len(clients) : id \in PoolIds(i)
    /\ finished # [kind |-> "handler", why |-> "no-input"]

\* C22 witness: with two accounts, the reply to an event in a common
\* conversation is being sent through the account that is not the watcher.
C22_Witness ==
  /\ mPc = "listening"
  /\ Len(clients) = 2
  /\ \E h \in handlers :
       /\ h.pc = "sending"
       /\ h.acct = clients[2].acct
       /\ PeerIdStringMulti(h.chat) \in commonIds

\* C23: a handler gets past its first check only for a conversation of
\* commonIds: no template fetch and no reply send is ever awaited for an
\* event of another conversation.
C23_NoReplyOutsideCommonIds ==
  \A h \in handlers :
    h.pc \in {"fetching", "sending"} => PeerIdStringMulti(h.chat) \in commonIds

\* C23 witness: an event was dropped because its conversation, which the
\* watcher itself can write to, is not common to all accounts.
C23_Witness ==
  /\ mPc = "listening"
  /\ finished = [kind |-> "handler", why |-> "not-common"]
  /\ commonIds = {}
  /\ PoolIds(1) # {}
  /\ handlers = {}

\* C24: a flood wait on the reply send ends the handling of the event on the
\* spot: the handler is gone, no time has passed, and the accounts' pools,
\* commonIds and the template cache are what they were.
C24_ReplyFloodDropsEvent ==
  [][\A h \in handlers : \A s \in ReplyFloodSeconds :
       HSendFloods(h, s) =>
         /\ \A g \in handlers' : g.ev # h.ev
         /\ finished' = [kind |-> "handler", why |-> "flood"]
         /\ now' = now
         /\ clients' = clients /\ commonIds' = commonIds
         /\ commentsCache' = commentsCache]_vars

\* C24 witness: an event was dropped on a flood wait; cache and pools are
\* still filled.
C24_Witness ==
  /\ finished = [kind |-> "handler", why |-> "flood"]
  /\ handlers = {}
  /\ commentsCache # <<>>
  /\ commonIds # {}

\* The batch holds a dialog whose reading throws.
SomeDialogThrows ==
  \E k \in 1..Len(hDialogs) : hDialogs[k].cls = "Throws"

\* C25: a dialog whose reading throws is left out and nothing more: every
\* other dialog of the batch that passes the tests is in the poster's array
\* and under its id in an account's Map, wherever in the batch it stands.
C25_ThrowingDialogSkippedAlone ==
  SomeDialogThrows =>
    /\ "service" \in hDone =>
         /\ \A j \in Accepted : \E i \in 1..Len(hPeers) : hPeers[i].input.of = hDialogs[j]
         /\ \A i \in 1..Len(hPeers) : hPeers[i].input.of.cls # "Throws"
    /\ "multi" \in hDone =>
         /\ \A j \in AcceptedMulti : PeerIdStringMulti(hDialogs[j]) \in DOMAIN hMap
         /\ \A id \in DOMAIN hMap : hMap[id].of.cls # "Throws"

\* C25 witness: the first dialog of a batch threw, the second was kept by
\* both passes.
C25_Witness ==
  /\ hDone = {"service", "multi"}
  /\ Len(hDialogs) = 2
  /\ hDialogs[1].cls = "Throws"
  /\ Len(hPeers) = 1 /\ hPeers[1].input.of = hDialogs[2]
  /\ DOMAIN hMap = {PeerIdStringMulti(hDialogs[2])}

\* The dialogs the two passes have kept.
KeptDialogs ==
  {hPeers[i].input.of : i \in 1..Len(hPeers)} \cup {hMap[id].of : id \in DOMAIN hMap}

\* C26: with groups_only every dialog kept is a group dialog and none has a
\* User entity; without it a dialog with a User entity is kept only when the
\* user is not a bot.
C26_GroupsOnlyAndBots ==
  \A d \in KeptDialogs :
    /\ hGroupsOnly => d.isGroup /\ d.cls # "User"
    /\ ~hGroupsOnly => (d.cls = "User" => ~d.bot)

\* C26 witness: under groups_only both passes dropped the direct
\* conversation of a batch and kept the group next to it.
C26_Witness ==
  /\ hGroupsOnly
  /\ hDone = {"service", "multi"}
  /\ Len(hDialogs) = 2
  /\ hDialogs[1].cls = "User" /\ hDialogs[1].isUser /\ ~hDialogs[1].bot
  /\ KeptDialogs = {hDialogs[2]}

\* C27: no dialog whose entity is flagged left or deactivated is kept, by
\* either pass and for either value of groups_only.
C27_LeftOrDeactivatedNeverEligible ==
  \A d \in KeptDialogs : ~d.left /\ ~d.deactivated

\* C27 witness: both passes dropped a deactivated basic group that every
\* other test lets through, and kept the dialog next to it.
C27_Witness ==
  /\ hDone = {"service", "multi"}
  /\ Len(hDialogs) = 2
  /\ LET d == hDialogs[1] IN
       /\ d.cls = "Chat" /\ d.deactivated /\ ~d.left
       /\ d.input /\ d.isGroup /\ ~d.defaultBannedSend
  /\ KeptDialogs = {hDialogs[2]}
  /\ hDialogs[2] # hDialogs[1]

\* C28: every id in a pool has the form channel_<n>, chat_<n> or user_<n>,
\* and peers of different conversations have different ids.  A dialog whose
\* entity is of none of the three classes passes every test and is stored
\* under 'peer_unknown': violated.
C28_IdFormsAndUniqueness ==
  /\ \A i \in 1..Len(hPeers) : hPeers[i].id.kind \in {"channel", "chat", "user"}
  /\ \A id \in DOMAIN hMap : id.kind \in {"channel", "chat", "user"}
  /\ \A i, j \in 1..Len(hPeers) :
       hPeers[i].id = hPeers[j].id =>
         SameConversation(hPeers[i].input.of, hPeers[j].input.of)

\* C29: a refresh whose getDialogs rejects changes nothing but its own end:
\* the pool is the array it was, the invocation returns to safeTask like any
\* other, main() goes on and both timers stay armed.  A refresh that assigns
\* the pool assigns the classification of one complete batch.
C29_FailedListingKeepsPool ==
  [][/\ \A t \in tasks :
          RefreshFails(t) =>
            /\ writablePeers' = writablePeers /\ nextGen' = nextGen
            /\ \A u \in tasks' : ~SameInvocation(t, u)
            /\ finished'.kind = t.kind
            /\ mainPc' = mainPc /\ exited' = exited
            /\ refreshTimer' = refreshTimer /\ postTimer' = postTimer
     /\ nextGen' # nextGen =>
          \E b \in Batches : writablePeers' = NextPeers(b, groups_only, nextGen)]_vars

\* C29 witness: the refresh started by the timer has ended on a failed
\* listing and the pool still holds its peers.
C29_Witness ==
  /\ finished = [kind |-> "refresh", why |-> "listing-failed"]
  /\ writablePeers # <<>>
  /\ refreshTimer > now

\* C30: a handler starts its one sendMessage only from the checks
\* (multi_commenter.ts:239-275): the chat is a common peer, the author is none
\* of the recorded selfIds, the probability gate can be passed, the cache it
\* picked from is not empty, and the sender is one of the clients, holding an
\* input for the chat.  Once the send is awaited the handler only ends: the
\* event gets no second send.
C30_OneGatedReplyPerEvent ==
  [][/\ \A h \in handlers : \A u \in handlers' :
          (u.ev = h.ev /\ u.pc = "sending" /\ h.pc # "sending") =>
            /\ h.pc \in {"getChat", "fetching"}
            /\ u.chat = h.chat /\ u.author = h.author
            /\ IsCommon(PeerIdStringMulti(h.chat))
            /\ ~AuthoredByUs(h.author)
            /\ \E r \in RandomDraws : ~Ignore(r, ignore_probability)
            /\ commentsCache' # <<>>
            /\ \E i \in 1..Len(clients) :
                 /\ u.acct = clients[i].acct
                 /\ PeerIdStringMulti(h.chat) \in DOMAIN clients[i].writablePeers
     /\ \A h \in handlers :
          h.pc = "sending" =>
            \/ h \in handlers'
            \/ \A u \in handlers' : u.ev # h.ev
     /\ \A h \in handlers : \A u \in handlers' :
          (h.pc = "getChat" /\ u.ev = h.ev /\ u.pc = "fetching") =>
            commentsCache = <<>>]_vars

\* C30 witness: a reply is being sent through a managed account other than
\* the watcher.
C30_Witness ==
  /\ Len(clients) >= 2
  /\ \E h \in handlers :
       /\ h.pc = "sending"
       /\ h.acct # clients[1].acct
       /\ h.author # 0

====
